---- MODULE Spec2Model ----
(***************************************************************************)
(* Ansatz builders (RVB, HVAnsatz, AnsatzBuilder / CRAnsatz) and the       *)
(* Heisenberg model of awshaff/ibm-open-science-price-2022.                *)
(*                                                                         *)
(* Strings that the code builds (parameter names) are sequences of         *)
(* character codes, so that concatenation, str() and the name ordering of  *)
(* the circuit's parameter view are computed rather than assumed.          *)
(***************************************************************************)
EXTENDS Integers, Sequences, FiniteSets, TLC

VARIABLES
    cls,              \* class of the object under test
    num_qubits,       \* self._num_qubits
    reps,             \* self._reps
    params,           \* self._params: parameter names in creation order
    call,             \* the last call: operation, arguments, params before it
    ret,              \* what the last call returned (field circuit) or raised
    entanglement,     \* PulseAnsatz._entanglement
    add_rz,           \* PulseAnsatz._add_rz
    final_rx,         \* PulseAnsatz._final_rx
    backend,          \* AnsatzBuilder._backend
    physical_qubits,  \* AnsatzBuilder._physical_qubits_map
    control_channels, \* AnsatzBuilder._control_channels
    wrapper_config,   \* AnsatzBuilder._wrapper_config
    circ,             \* the circuit the caller holds
    lattice           \* HeisenbergModel._lattice.weighted_edge_list

vars == <<cls, num_qubits, reps, params, call, ret, entanglement, add_rz,
          final_rx, backend, physical_qubits, control_channels,
          wrapper_config, circ, lattice>>

pulseVars == <<entanglement, add_rz, final_rx, backend, physical_qubits,
               control_channels, wrapper_config, circ>>

----------------------------------------------------------------------------
(* Bounds of the model *)

MaxQubits == 5
MaxReps == 2
MaxParams == 11
MaxPulseQubits == 3
MaxPulseParams == 3
MaxInstructions == 2

----------------------------------------------------------------------------
(* Strings *)

phi == <<112, 104, 105>>
t_str == <<116>>
p_str == <<112>>
p1_str == <<112, 49>>
gamma == <<103, 97, 109, 109, 97>>

RECURSIVE str(_)
str(k) == IF k < 10 THEN <<48 + k>> ELSE str(k \div 10) \o <<48 + (k % 10)>>

Last(s) == s[Len(s)]

(* Python's range(start, stop, step) as a sequence *)
range(start, stop, step) ==
    LET len == IF step > 0
               THEN (IF stop > start THEN (stop - start + step - 1) \div step ELSE 0)
               ELSE (IF start > stop THEN (start - stop - step - 1) \div (-step) ELSE 0)
    IN [i \in 1..len |-> start + (i - 1) * step]

----------------------------------------------------------------------------
(* The SDK circuit as far as the builders use it *)

NoCall == [op |-> "none", pre |-> <<>>, arg |-> <<>>]
NoRet == [status |-> "none", circuit |-> <<>>]

QuantumCircuit(n) == [num_qubits |-> n, data |-> <<>>, calibrations |-> {}]

(* Gate(name, num_qubits, params): an instruction not yet placed on qubits *)
Gate(name, gparams) == [name |-> name, params |-> gparams, definition |-> <<>>]

(* What a gate parameter can be: a Parameter, the expression -p/2, a number *)
Parameter(name) == [kind |-> "param", name |-> name, value |-> 0]
NegHalf(name) == [kind |-> "neg_half", name |-> name, value |-> 0]
Number(v) == [kind |-> "num", name |-> <<>>, value |-> v]

(* While a handler is written down as the calls it makes, a gate parameter
   that is the value of a new_param() call is named by how many allocations
   back that call is: New(0) is the latest. *)
New(back) == [kind |-> "new", name |-> <<>>, value |-> back]
NewNegHalf(back) == [kind |-> "new_neg_half", name |-> <<>>, value |-> back]

(* Python's ordering of strings: by code point, a proper prefix first *)
StrLess(a, b) ==
    \E k \in 1..Len(b) :
        /\ \A j \in 1..(k - 1) : j <= Len(a) /\ a[j] = b[j]
        /\ (k > Len(a) \/ a[k] < b[k])

(* sorted(S) for a set of names: every name at the place counted by the
   names before it *)
sorted(S) ==
    CHOOSE r \in
        {[i \in 1..Cardinality(S) |-> (CHOOSE e \in ranked : e[1] = i)[2]] \o <<>> :
         ranked \in {{<<1 + Cardinality({y \in S : StrLess(y, x)}), x>> : x \in S}}} : TRUE

(* the names of the unbound parameters in a list of instructions *)
ParamNames(data) ==
    UNION {{data[i].operation.params[j].name :
               j \in {k \in DOMAIN data[i].operation.params :
                         data[i].operation.params[k].kind # "num"}} :
           i \in DOMAIN data}

(* circuit.parameters: the unbound parameters of the instructions,
   deduplicated and sorted by name *)
parameters(circuit) == sorted(ParamNames(circuit.data))

(* qubit arguments the circuit accepts: in range (Python indexing) and distinct *)
ValidQargs(n, qubits) ==
    /\ \A i \in DOMAIN qubits : qubits[i] < n /\ qubits[i] >= -n
    /\ \A i, j \in DOMAIN qubits : i # j => (qubits[i] - qubits[j]) % n # 0

EmptyMap == [x \in {} |-> 0]

(* PulseAnsatz._entanglement: the tag 'interleaved' or a list of pairs *)
Interleaved == [tag |-> "interleaved", pairs |-> <<>>]

PairList(pairs) == [tag |-> "list", pairs |-> pairs]

RECURSIVE Flatten(_)
Flatten(ss) == IF ss = <<>> THEN <<>> ELSE Head(ss) \o Flatten(Tail(ss))

(* [Parameter(name) for name in names] *)
Parameters(names) == [i \in DOMAIN names |-> Parameter(names[i])]

----------------------------------------------------------------------------
(* A handler's body is written as the sequence of builder calls it makes,  *)
(* in execution order; Run executes them up to the first that raises.      *)

(* self.new_param(paramstr) *)
NP(paramstr) == [op |-> "new_param", paramstr |-> paramstr,
                 inst |-> Gate("", <<>>), qargs |-> <<>>]

(* circuit.append(inst, qargs), and the named-gate methods *)
AP(inst, qargs) == [op |-> "append", paramstr |-> <<>>,
                    inst |-> inst, qargs |-> qargs]

(* new_param: the name given to the parameter created when the list holds k *)
new_param(paramstr, k) == paramstr \o str(k)

(* how many new_param calls the first i calls hold, for every i *)
Counts(prog) ==
    [i \in DOMAIN prog |->
        Cardinality({j \in 1..i : prog[j].op = "new_param"})] \o <<>>

(* the first call that raises: an append the circuit rejects *)
FirstBad(n, prog) ==
    LET bad == {i \in DOMAIN prog :
                   prog[i].op = "append" /\ ~ValidQargs(n, prog[i].qargs)}
    IN IF bad = {} THEN Len(prog) + 1
       ELSE CHOOSE i \in bad : \A j \in bad : i <= j

(* self._params after the calls up to and including call number last *)
Allocated(ps, prog, counts, last) ==
    ps \o [k \in 1..(IF last = 0 THEN 0 ELSE counts[last]) |->
             new_param(prog[CHOOSE j \in 1..last :
                               prog[j].op = "new_param" /\ counts[j] = k].paramstr,
                       Len(ps) + k - 1)]

(* a gate parameter with the value of its new_param() call filled in;
   made is the length of names when the gate is appended *)
BindParam(prm, names, made) ==
    IF prm.kind = "new" THEN Parameter(names[made - prm.value])
    ELSE IF prm.kind = "new_neg_half" THEN NegHalf(names[made - prm.value])
         ELSE prm

BindData(data, names, made) ==
    [j \in DOMAIN data |->
        [data[j] EXCEPT !.operation.params =
            [m \in DOMAIN @ |-> BindParam(@[m], names, made)]]] \o <<>>

(* the instruction as appended; one made from a circuit (to_gate) carries
   that circuit's parameters, sorted, as its own *)
BindInst(inst, names, made) ==
    IF inst.definition = <<>>
    THEN [inst EXCEPT !.params = [m \in DOMAIN @ |-> BindParam(@[m], names, made)]]
    ELSE CHOOSE g \in {[inst EXCEPT !.definition = d,
                                    !.params = Parameters(sorted(ParamNames(d)))] :
                       d \in {BindData(inst.definition, names, made)}} : TRUE

(* circuit.data after the calls before call number stop *)
Placed(ps, prog, counts, stop, names) ==
    SelectSeq([i \in 1..(stop - 1) |->
                  IF prog[i].op = "append"
                  THEN [operation |-> BindInst(prog[i].inst, names, Len(ps) + counts[i]),
                        qubits |-> prog[i].qargs]
                  ELSE [operation |-> Gate("", <<>>), qubits |-> <<>>]],
              LAMBDA e : e.operation.name # "")

RunStopped(ps, n, prog, counts, stop) ==
    CHOOSE r \in
        {[params |-> names,
          status |-> IF stop > Len(prog) THEN "ok" ELSE "CircuitError: qubit arguments",
          circuit |-> [QuantumCircuit(n) EXCEPT
                          !.data = Placed(ps, prog, counts, stop, names)]] :
         names \in {Allocated(ps, prog, counts,
                              IF stop > Len(prog) THEN Len(prog) ELSE stop)}} : TRUE

(* the builder's parameter list, the circuit and the outcome after the
   calls of prog are made in order on a new circuit over n qubits *)
Run(ps, n, prog) ==
    CHOOSE r \in {RunStopped(ps, n, prog, counts, FirstBad(n, prog)) :
                  counts \in {Counts(prog)}} : TRUE

Raised(ps, error) == [params |-> ps, status |-> error, circuit |-> QuantumCircuit(0)]

Returned(st) ==
    [status |-> st.status,
     circuit |-> IF st.status = "ok" THEN <<st.circuit>> ELSE <<>>]

----------------------------------------------------------------------------
(* custom_ansatz.py: RVB *)

(* add_eSWAP with the two parameters given to the wrong gates *)
add_eSWAP_swapped(qargs) ==
    <<NP(phi), NP(phi),
      AP([name |-> "eSWAP", params |-> <<>>,
          definition |->
             <<[operation |-> Gate("cx", <<>>), qubits |-> <<1, 0>>],
               [operation |-> Gate("crx", <<New(0)>>), qubits |-> <<0, 1>>],
               [operation |-> Gate("x", <<>>), qubits |-> <<0>>],
               [operation |-> Gate("rz", <<NewNegHalf(1)>>), qubits |-> <<0>>],
               [operation |-> Gate("cx", <<>>), qubits |-> <<1, 0>>]>>],
         qargs)>>

(* add_eSWAP, appended on qargs: two allocations, then the gate made from
   the two-qubit circuit cx, crx(p), x, rz(-p'/2), cx *)
add_eSWAP(qargs) ==
    <<NP(phi), NP(phi),
      AP([name |-> "eSWAP", params |-> <<>>,
          definition |->
             <<[operation |-> Gate("cx", <<>>), qubits |-> <<1, 0>>],
               [operation |-> Gate("crx", <<New(1)>>), qubits |-> <<0, 1>>],
               [operation |-> Gate("x", <<>>), qubits |-> <<0>>],
               [operation |-> Gate("rz", <<NewNegHalf(0)>>), qubits |-> <<0>>],
               [operation |-> Gate("cx", <<>>), qubits |-> <<1, 0>>]>>],
         qargs)>>

X_init(i) == <<AP(Gate("x", <<>>), <<i>>)>>

RVB_bell(j) ==
    IF j % 2 = 0
    THEN <<AP(Gate("h", <<>>), <<j>>), AP(Gate("cx", <<>>), <<j, j + 1>>)>>
    ELSE <<>>

(* the odd pass without the wraparound of the last pair to qubit 0 *)
RVB_odd_nowrap(n, l) == add_eSWAP(<<l, l + 1>>)

RVB_odd(n, l) == add_eSWAP(IF l < n - 1 THEN <<l, l + 1>> ELSE <<l, 0>>)

(* the even pass stopping one pair short *)
RVB_even_range_short(n) == range(0, n - 2, 2)

RVB_even_range(n) == range(0, n - 1, 2)

RVB_layer(n) ==
    Flatten([i \in DOMAIN range(n - 1, 0, -2) |-> RVB_odd(n, range(n - 1, 0, -2)[i])])
    \o Flatten([i \in DOMAIN RVB_even_range(n) |->
                   add_eSWAP(<<RVB_even_range(n)[i], RVB_even_range(n)[i] + 1>>)])

EvenError == "CircuitError: The number of qubits should be even!"

RVB_build(ps, n, r) ==
    IF n % 2 # 0 THEN Raised(ps, EvenError)
    ELSE Run(ps, n,
             Flatten([k \in DOMAIN range(0, n, 1) |-> X_init(range(0, n, 1)[k])])
             \o Flatten([k \in DOMAIN range(0, n, 1) |-> RVB_bell(range(0, n, 1)[k])])
             \o Flatten([k \in DOMAIN range(0, r, 1) |-> RVB_layer(n)]))

RVB_circuit ==
    /\ cls = "RVB"
    /\ Len(params) < MaxParams
    /\ \E st \in {RVB_build(params, num_qubits, reps)} :
          /\ params' = st.params
          /\ ret' = Returned(st)
    /\ call' = [op |-> "circuit", pre |-> params, arg |-> <<>>]
    /\ UNCHANGED <<cls, num_qubits, reps, lattice>>
    /\ UNCHANGED pulseVars

----------------------------------------------------------------------------
(* custom_ansatz.py: HVAnsatz *)

(* the three rotations of a pair sharing one parameter *)
HVA_rotations_shared(paramstr, qargs) ==
    <<NP(paramstr), AP(Gate("rzz", <<New(0)>>), qargs),
      AP(Gate("ryy", <<New(0)>>), qargs),
      AP(Gate("rxx", <<New(0)>>), qargs)>>

HVA_rotations(paramstr, qargs) ==
    <<NP(paramstr), AP(Gate("rzz", <<New(0)>>), qargs),
      NP(paramstr), AP(Gate("ryy", <<New(0)>>), qargs),
      NP(paramstr), AP(Gate("rxx", <<New(0)>>), qargs)>>

HVA_odd(n, i) == HVA_rotations(phi, IF i < n - 1 THEN <<i, i + 1>> ELSE <<i, 0>>)

HVA_even_range(n) == range(0, n, 2)

(* the Bell-pair loop testing its own variable j *)
HVA_bell_own_index(j, i) ==
    IF j % 2 = 0
    THEN <<AP(Gate("h", <<>>), <<j>>), AP(Gate("cx", <<>>), <<j, j + 1>>)>>
    ELSE <<>>

(* the Bell-pair loop tests i, which the initial-state loop left at its
   last value *)
HVA_bell(j, i) ==
    IF i % 2 = 0
    THEN <<AP(Gate("h", <<>>), <<j>>), AP(Gate("cx", <<>>), <<j, j + 1>>)>>
    ELSE <<>>

HVA_layer(n) ==
    Flatten([k \in DOMAIN range(n - 1, 0, -2) |-> HVA_odd(n, range(n - 1, 0, -2)[k])])
    \o Flatten([k \in DOMAIN HVA_even_range(n) |->
                   HVA_rotations(gamma, <<HVA_even_range(n)[k],
                                          HVA_even_range(n)[k] + 1>>)])

HVA_build(ps, n, r) ==
    IF n % 2 # 0 THEN Raised(ps, EvenError)
    ELSE Run(ps, n,
             Flatten([k \in DOMAIN range(0, n, 1) |-> X_init(range(0, n, 1)[k])])
             \o Flatten([k \in DOMAIN range(0, n, 1) |->
                            HVA_bell(range(0, n, 1)[k], Last(range(0, n, 1)))])
             \o Flatten([k \in DOMAIN range(0, r, 1) |-> HVA_layer(n)]))

HVAnsatz_circuit ==
    /\ cls = "HVAnsatz"
    /\ Len(params) < MaxParams
    /\ \E st \in {HVA_build(params, num_qubits, reps)} :
          /\ params' = st.params
          /\ ret' = Returned(st)
    /\ call' = [op |-> "circuit", pre |-> params, arg |-> <<>>]
    /\ UNCHANGED <<cls, num_qubits, reps, lattice>>
    /\ UNCHANGED pulseVars

(* a caller's own new_param(paramstr) on a builder of any of the three
   classes *)
call_new_param(paramstr) ==
    /\ Len(params) < MaxParams
    /\ params' = Run(params, 0, <<NP(paramstr)>>).params
    /\ ret' = [status |-> "ok", circuit |-> <<>>]
    /\ call' = [op |-> "new_param", pre |-> params, arg |-> paramstr]
    /\ UNCHANGED <<cls, num_qubits, reps, lattice>>
    /\ UNCHANGED pulseVars

Ansatz_new_param == call_new_param(phi)

PulseIdle ==
    /\ entanglement = Interleaved
    /\ add_rz = FALSE
    /\ final_rx = FALSE
    /\ backend = [kind |-> "plain", channels |-> EmptyMap]
    /\ physical_qubits = <<>>
    /\ control_channels = EmptyMap
    /\ wrapper_config = EmptyMap
    /\ circ = QuantumCircuit(0)

InitAnsatz ==
    /\ cls \in {"RVB", "HVAnsatz"}
    /\ num_qubits \in 0..MaxQubits
    /\ reps \in 0..MaxReps
    /\ params = <<>>
    /\ call = NoCall
    /\ ret = NoRet
    /\ lattice = <<>>
    /\ PulseIdle

NextAnsatz == RVB_circuit \/ HVAnsatz_circuit \/ Ansatz_new_param

SpecAnsatz == InitAnsatz /\ [][NextAnsatz]_vars

----------------------------------------------------------------------------
(* pulse_ansatz.py: AnsatzBuilder *)

max_duration == 800

ControlChannel(index) == [kind |-> "u", index |-> index]

DriveChannel(index) == [kind |-> "d", index |-> index]

(* a cache keeping the channel indices but numbering them from 0 *)
get_control_channel_from_zero(bk, cache, qubits) ==
    IF bk.kind = "v2"
    THEN [cache |-> cache, channel |-> ControlChannel(bk.channels[qubits])]
    ELSE IF bk.kind = "v1" /\ qubits \in DOMAIN bk.channels
         THEN [cache |-> cache, channel |-> ControlChannel(bk.channels[qubits])]
         ELSE IF qubits \notin DOMAIN cache
              THEN LET max_chan == Cardinality(DOMAIN cache)
                       made == [q \in DOMAIN cache \cup {qubits} |->
                                  IF q = qubits THEN max_chan ELSE cache[q]]
                   IN [cache |-> made, channel |-> ControlChannel(made[qubits])]
              ELSE [cache |-> cache, channel |-> ControlChannel(cache[qubits])]

(* _get_control_channel(qubits) on backend bk with cache `cache`: the cache
   afterwards and the channel returned.  bk.kind says which attributes the
   backend has: "v2" has control_channel(), "v1" has configuration() with a
   control_channels dict, "v1_bare" has configuration() without it, "plain"
   has neither. *)
get_control_channel(bk, cache, qubits) ==
    IF bk.kind = "v2"
    THEN [cache |-> cache, channel |-> ControlChannel(bk.channels[qubits])]
    ELSE IF bk.kind = "v1" /\ qubits \in DOMAIN bk.channels
         THEN [cache |-> cache, channel |-> ControlChannel(bk.channels[qubits])]
         ELSE IF qubits \notin DOMAIN cache
              THEN LET max_chan == Cardinality(DOMAIN cache)
                       made == [q \in DOMAIN cache \cup {qubits} |->
                                  IF q = qubits THEN max_chan + 1 ELSE cache[q]]
                   IN [cache |-> made, channel |-> ControlChannel(made[qubits])]
              ELSE [cache |-> cache, channel |-> ControlChannel(cache[qubits])]

(* add_rx(circuit, qubit) *)
add_rx(qubit) == <<NP(phi), AP(Gate("rx", <<New(0)>>), <<qubit>>)>>

(* add_cr(circuit, qubits, duration): duration <<>> stands for None *)
add_cr(qubits, duration) ==
    IF duration = <<>>
    THEN <<NP(t_str), NP(phi), AP(Gate("cr", <<New(1), New(0)>>), qubits)>>
    ELSE <<NP(phi), AP(Gate("cr", <<duration[1], New(0)>>), qubits)>>

(* _param_idx counting positions from 1 *)
param_idx_from_one(view, param) ==
    LET hits == {idx \in 1..Len(view) :
                    param.kind = "param" /\ view[idx] = param.name}
    IN IF hits = {} THEN -1 ELSE CHOOSE idx \in hits : \A other \in hits : idx <= other

(* _param_idx(circuit, param), given circuit.parameters; -1 stands for the
   ValueError *)
param_idx(view, param) ==
    LET hits == {idx \in 0..(Len(view) - 1) :
                    param.kind = "param" /\ view[idx + 1] = param.name}
    IN IF hits = {} THEN -1 ELSE CHOOSE idx \in hits : \A other \in hits : idx <= other

SinWrapper(param) ==
    [wrapper |-> "SinWrapper", coeffs |-> <<1, 1, 0, 0>>,
     label |-> [what |-> "amp", name |-> param.name]]

SinDurationWrapper(param) ==
    [wrapper |-> "SinDurationWrapper",
     coeffs |-> <<max_duration \div 2, 1, max_duration \div 2 + 4 * 64, 160>>,
     label |-> [what |-> "dur", name |-> param.name]]

(* the wrapper-config assignment an instruction parameter causes, if any:
   none when float() / int() accepts the parameter *)
Wrap(view, i, param, entry) ==
    IF param.kind = "num" THEN <<>>
    ELSE <<[i |-> i, key |-> param_idx(view, param), val |-> entry]>>

Handled(inst) == inst.operation.name \in {"ccr", "cr", "rx"}

Unmapped(map, inst) ==
    \E k \in DOMAIN inst.qubits : inst.qubits[k] + 1 \notin DOMAIN map

pqubits(map, inst) == [k \in DOMAIN inst.qubits |-> map[inst.qubits[k] + 1]] \o <<>>

(* what the scan does at instruction i before any calibration is added:
   the IndexError of the physical-qubit lookup (key -2), or the
   wrapper-config assignments of add_rx_schedule / add_cr_schedule *)
Events(map, data, view, i) ==
    IF ~Handled(data[i]) THEN <<>>
    ELSE IF Unmapped(map, data[i])
         THEN <<[i |-> i, key |-> -2, val |-> SinWrapper(Number(0))]>>
         ELSE IF data[i].operation.name = "cr"
              THEN Wrap(view, i, data[i].operation.params[1],
                        SinDurationWrapper(data[i].operation.params[1]))
                   \o Wrap(view, i, data[i].operation.params[2],
                           SinWrapper(data[i].operation.params[2]))
              ELSE IF data[i].operation.name = "rx"
                   THEN Wrap(view, i, data[i].operation.params[1],
                             SinWrapper(data[i].operation.params[1]))
                   ELSE <<>>

AllEvents(map, circuit) ==
    CHOOSE ev \in {Flatten([i \in DOMAIN circuit.data |->
                               Events(map, circuit.data, view, i)]) :
                   view \in {parameters(circuit)}} : TRUE

(* the events before the first one that raises *)
FirstError(ev) ==
    LET errs == {j \in DOMAIN ev : ev[j].key < 0}
    IN IF errs = {} THEN Len(ev) + 1
       ELSE CHOOSE j \in errs : \A other \in errs : j <= other

(* self._wrapper_config after the assignments writes, in order *)
Assigned(config, writes) ==
    [k \in DOMAIN config \cup {writes[j].key : j \in DOMAIN writes} |->
        IF \E j \in DOMAIN writes : writes[j].key = k
        THEN writes[CHOOSE j \in DOMAIN writes :
                        /\ writes[j].key = k
                        /\ \A other \in DOMAIN writes :
                              writes[other].key = k => other <= j].val
        ELSE config[k]]

(* the control-channel cache after the requests reqs, in order *)
RECURSIVE CacheAfter(_, _, _)
CacheAfter(bk, cache, reqs) ==
    IF reqs = <<>> THEN cache
    ELSE CacheAfter(bk, get_control_channel(bk, cache, Head(reqs)).cache, Tail(reqs))

(* the physical qubits of the cr instructions among the first i *)
Requests(map, data, i) ==
    CHOOSE r \in {[k \in DOMAIN crs |-> pqubits(map, crs[k])] \o <<>> :
                  crs \in {SelectSeq(SubSeq(data, 1, i),
                                     LAMBDA g : g.operation.name = "cr")}} : TRUE

(* the calibration add_rx_schedule adds *)
rx_calibration(map, inst) ==
    [gate |-> "rx", qubits |-> pqubits(map, inst),
     params |-> <<inst.operation.params[1]>>,
     schedule |-> [pulse |-> "Drag", channel |-> DriveChannel(pqubits(map, inst)[1])]]

(* the calibration add_cr_schedule adds, on the channel that
   _get_control_channel returns at that point of the scan *)
cr_calibration(bk, map, cache, data, i) ==
    [gate |-> "cr", qubits |-> pqubits(map, data[i]),
     params |-> data[i].operation.params,
     schedule |->
        [pulse |-> "GaussianSquare",
         channel |-> get_control_channel(
                         bk, CacheAfter(bk, cache, Requests(map, data, i - 1)),
                         pqubits(map, data[i])).channel]]

Scanned(bk, map, cache, config, circuit, ev, first) ==
    CHOOSE r \in
        {[status |-> IF first > Len(ev) THEN "ok"
                     ELSE IF ev[first].key = -2 THEN "IndexError" ELSE "ValueError",
          config |-> Assigned(config, SubSeq(ev, 1, first - 1)),
          cache |-> CacheAfter(bk, cache, Requests(map, circuit.data, stop - 1)),
          circuit |-> [circuit EXCEPT !.calibrations = @
              \cup {rx_calibration(map, circuit.data[i]) :
                      i \in {j \in 1..(stop - 1) : circuit.data[j].operation.name = "rx"}}
              \cup {cr_calibration(bk, map, cache, circuit.data, i) :
                      i \in {j \in 1..(stop - 1) : circuit.data[j].operation.name = "cr"}}]] :
         stop \in {IF first > Len(ev) THEN Len(circuit.data) + 1 ELSE ev[first].i}} : TRUE

(* add_schedules(circuit): the circuit, wrapper config and channel cache
   afterwards, with the exception that ended the scan if one did *)
add_schedules(bk, map, cache, config, circuit) ==
    CHOOSE r \in {Scanned(bk, map, cache, config, circuit, ev, FirstError(ev)) :
                  ev \in {AllEvents(map, circuit)}} : TRUE

----------------------------------------------------------------------------
(* pulse_ansatz.py: PulseAnsatz and CRAnsatz *)

CR_rotation(rz, qubit) ==
    add_rx(qubit) \o
    (IF rz THEN <<NP(phi), AP(Gate("rz", <<New(0)>>), <<qubit>>)>> ELSE <<>>)

CR_even_range(n) == range(0, n, 2)

CR_odd_range(n) == range(1, n - 1, 2)

CR_interleaved(n) ==
    Flatten([k \in DOMAIN CR_even_range(n) |->
                add_cr(<<CR_even_range(n)[k], CR_even_range(n)[k] + 1>>, <<>>)])
    \o Flatten([k \in DOMAIN CR_odd_range(n) |->
                   add_cr(<<CR_odd_range(n)[k], CR_odd_range(n)[k] + 1>>, <<>>)])

(* CRAnsatz._layer as the calls it makes *)
CR_layer(n, ent, rz) ==
    Flatten([k \in DOMAIN range(0, n, 1) |-> CR_rotation(rz, range(0, n, 1)[k])])
    \o (IF ent.tag = "interleaved" THEN CR_interleaved(n) ELSE <<>>)
    \o (IF ent.tag = "list"
        THEN Flatten([k \in DOMAIN ent.pairs |-> add_cr(ent.pairs[k], <<>>)])
        ELSE <<>>)

(* PulseAnsatz.circuit as the calls it makes *)
PA_circuit(n, r, ent, rz, frx) ==
    Flatten([k \in DOMAIN range(0, r, 1) |-> CR_layer(n, ent, rz)])
    \o (IF frx THEN Flatten([k \in DOMAIN range(0, n, 1) |-> add_rx(range(0, n, 1)[k])])
        ELSE <<>>)

CRAnsatz_layer ==
    /\ cls = "CRAnsatz"
    /\ Len(params) < MaxPulseParams
    /\ \E st \in {Run(params, num_qubits, CR_layer(num_qubits, entanglement, add_rz))} :
          /\ params' = st.params
          /\ ret' = Returned(st)
    /\ call' = [op |-> "_layer", pre |-> params, arg |-> <<>>]
    /\ UNCHANGED <<cls, num_qubits, reps, lattice, entanglement, add_rz, final_rx,
                   backend, physical_qubits, control_channels, wrapper_config, circ>>

(* circuit(); the caller keeps the circuit it returns *)
CRAnsatz_circuit ==
    /\ cls = "CRAnsatz"
    /\ Len(params) < MaxPulseParams
    /\ \E st \in {Run(params, num_qubits,
                     PA_circuit(num_qubits, reps, entanglement, add_rz, final_rx))} :
          /\ params' = st.params
          /\ ret' = Returned(st)
          /\ circ' = IF st.status = "ok" THEN st.circuit ELSE circ
    /\ call' = [op |-> "circuit", pre |-> params, arg |-> <<>>]
    /\ UNCHANGED <<cls, num_qubits, reps, lattice, entanglement, add_rz, final_rx,
                   backend, physical_qubits, control_channels, wrapper_config>>

(* builder.add_cr(circ, qubits, duration) called on the circuit the caller
   holds *)
call_add_cr(qubits, duration) ==
    /\ cls = "CRAnsatz"
    /\ Len(params) < MaxPulseParams
    /\ Len(circ.data) < MaxInstructions
    /\ \E st \in {Run(params, circ.num_qubits, add_cr(qubits, duration))} :
          /\ params' = st.params
          /\ ret' = [status |-> st.status, circuit |-> <<>>]
          /\ circ' = [circ EXCEPT !.data = @ \o st.circuit.data]
    /\ call' = [op |-> "add_cr", pre |-> params, arg |-> qubits]
    /\ UNCHANGED <<cls, num_qubits, reps, lattice, entanglement, add_rz, final_rx,
                   backend, physical_qubits, control_channels, wrapper_config>>

(* the caller appends a gate named 'ccr' with a new builder parameter *)
call_append_ccr(qubits) ==
    /\ cls = "CRAnsatz"
    /\ Len(params) < MaxPulseParams
    /\ Len(circ.data) < MaxInstructions
    /\ \E st \in {Run(params, circ.num_qubits,
                     <<NP(phi), AP(Gate("ccr", <<New(0)>>), qubits)>>)} :
          /\ params' = st.params
          /\ ret' = [status |-> st.status, circuit |-> <<>>]
          /\ circ' = [circ EXCEPT !.data = @ \o st.circuit.data]
    /\ call' = [op |-> "append_ccr", pre |-> params, arg |-> qubits]
    /\ UNCHANGED <<cls, num_qubits, reps, lattice, entanglement, add_rz, final_rx,
                   backend, physical_qubits, control_channels, wrapper_config>>

call_add_schedules ==
    /\ cls = "CRAnsatz"
    /\ \E r \in {add_schedules(backend, physical_qubits, control_channels,
                              wrapper_config, circ)} :
          /\ circ' = r.circuit
          /\ wrapper_config' = r.config
          /\ control_channels' = r.cache
          /\ ret' = [status |-> r.status, circuit |-> <<>>]
    /\ call' = [op |-> "add_schedules", pre |-> params, arg |-> <<circ, wrapper_config>>]
    /\ UNCHANGED <<cls, num_qubits, reps, lattice, entanglement, add_rz, final_rx,
                   backend, physical_qubits, params>>

(* backends and physical-qubit maps the builder is constructed with: a
   simulator without channels and a map covering every qubit, and a
   backend whose configuration supplies the channel of (1, 2), with a map of
   two qubits *)
Setups ==
    {[backend |-> [kind |-> "plain", channels |-> EmptyMap],
      physical_qubits |-> [q \in 1..(MaxPulseQubits + 1) |-> MaxPulseQubits + 1 - q]],
     [backend |-> [kind |-> "v1", channels |-> [q \in {<<1, 2>>} |-> 0]],
      physical_qubits |-> <<2, 1>>]}

InitPulse ==
    /\ cls = "CRAnsatz"
    /\ num_qubits \in 1..MaxPulseQubits
    /\ reps \in 0..MaxReps
    /\ entanglement \in {Interleaved, PairList(<<<<1, 0>>, <<0, 1>>>>)}
    /\ add_rz \in BOOLEAN
    /\ final_rx \in BOOLEAN
    /\ \E s \in Setups : backend = s.backend /\ physical_qubits = s.physical_qubits
    /\ control_channels = EmptyMap
    /\ wrapper_config = EmptyMap
    /\ circ = QuantumCircuit(num_qubits)
    /\ params = <<>>
    /\ call = NoCall
    /\ ret = NoRet
    /\ lattice = <<>>

(* the qubit pairs a caller's own appends are tried with *)
CallerPairs(circuit) == IF circuit.num_qubits >= 2 THEN {<<1, 0>>} ELSE {}

NextPulse ==
    \/ CRAnsatz_circuit
    \/ \E q \in CallerPairs(circ) : call_add_cr(q, <<Number(160)>>)
    \/ \E q \in CallerPairs(circ) : call_append_ccr(q)
    \/ call_add_schedules

NextLayer == CRAnsatz_layer \/ CRAnsatz_circuit

SpecLayer == InitPulse /\ [][NextLayer]_vars

SpecPulse == InitPulse /\ [][NextPulse]_vars

----------------------------------------------------------------------------
(* new_param of the three builder classes, called by circuit() and by the
   caller with prefixes of its own *)

Prefixes == {p_str, p1_str}

InitParam ==
    /\ cls \in {"RVB", "HVAnsatz", "AnsatzBuilder"}
    /\ num_qubits = 2
    /\ reps = 1
    /\ params = <<>>
    /\ call = NoCall
    /\ ret = NoRet
    /\ lattice = <<>>
    /\ PulseIdle

NextParam ==
    \/ RVB_circuit
    \/ HVAnsatz_circuit
    \/ \E paramstr \in Prefixes : call_new_param(paramstr)

SpecParam == InitParam /\ [][NextParam]_vars

----------------------------------------------------------------------------
(* pulse_ansatz.py: AnsatzBuilder._get_control_channel called on its own *)

MaxChannelQubit == 1
MaxCached == 3

QubitPairs == {<<a, b>> : a, b \in 0..MaxChannelQubit}

call_get_control_channel(qubits) ==
    /\ cls = "AnsatzBuilder"
    /\ \E r \in {get_control_channel(backend, control_channels, qubits)} :
          /\ Cardinality(DOMAIN r.cache) <= MaxCached
          /\ control_channels' = r.cache
          /\ ret' = [status |-> "ok", circuit |-> <<r.channel>>]
    /\ call' = [op |-> "_get_control_channel", pre |-> params,
                arg |-> <<qubits, control_channels>>]
    /\ UNCHANGED <<cls, num_qubits, reps, lattice, entanglement, add_rz, final_rx,
                   backend, physical_qubits, wrapper_config, circ, params>>

(* the backends: one with control_channel() for every pair, one whose
   configuration() lists the channel of (0, 1) only, one whose
   configuration() has no control_channels, one with neither attribute *)
Backends ==
    {[kind |-> "v2", channels |-> [q \in QubitPairs |-> 10 + 2 * q[1] + q[2]]],
     [kind |-> "v1", channels |-> [q \in {<<0, 1>>} |-> 7]],
     [kind |-> "v1_bare", channels |-> EmptyMap],
     [kind |-> "plain", channels |-> EmptyMap]}

InitChannel ==
    /\ cls = "AnsatzBuilder"
    /\ backend \in Backends
    /\ num_qubits = 0
    /\ reps = 0
    /\ entanglement = Interleaved
    /\ add_rz = FALSE
    /\ final_rx = FALSE
    /\ physical_qubits = <<>>
    /\ control_channels = EmptyMap
    /\ wrapper_config = EmptyMap
    /\ circ = QuantumCircuit(0)
    /\ params = <<>>
    /\ call = NoCall
    /\ ret = NoRet
    /\ lattice = <<>>

NextChannel == \E qubits \in QubitPairs : call_get_control_channel(qubits)

SpecChannel == InitChannel /\ [][NextChannel]_vars

----------------------------------------------------------------------------
(* heisenberg_model.py: HeisenbergModel.second_q_ops *)

MaxNode == 1
MaxEdges == 3

Weights == {-1, 2}

X_ == <<88, 95>>
Y_ == <<89, 95>>
Z_ == <<90, 95>>
space == <<32>>

(* the terms of a cross edge with the YY term left out *)
edge_terms_no_yy(node_a, node_b, weight) ==
    IF node_a = node_b
    THEN <<[label |-> X_ \o str(node_a), coeff |-> weight]>>
    ELSE <<[label |-> X_ \o str(node_a) \o space \o X_ \o str(node_b), coeff |-> weight],
           [label |-> Z_ \o str(node_a) \o space \o Z_ \o str(node_b), coeff |-> weight]>>

(* the body of the loop over the weighted edges: what one edge appends *)
edge_terms(node_a, node_b, weight) ==
    IF node_a = node_b
    THEN <<[label |-> X_ \o str(node_a), coeff |-> weight]>>
    ELSE <<[label |-> X_ \o str(node_a) \o space \o X_ \o str(node_b), coeff |-> weight],
           [label |-> Y_ \o str(node_a) \o space \o Y_ \o str(node_b), coeff |-> weight],
           [label |-> Z_ \o str(node_a) \o space \o Z_ \o str(node_b), coeff |-> weight]>>

SpinOp(ham, register_length) ==
    [terms |-> ham, spin |-> <<1, 2>>, register_length |-> register_length]

(* second_q_ops(display_format): display_format <<>> stands for None, <<f>>
   for the string f, which makes the code reach the undefined name logger *)
second_q_ops(lat, display_format) ==
    IF display_format # <<>>
    THEN [status |-> "NameError: name 'logger' is not defined", circuit |-> <<>>]
    ELSE [status |-> "ok",
          circuit |-> <<SpinOp(Flatten([k \in DOMAIN lat.weighted_edge_list |->
                                          edge_terms(lat.weighted_edge_list[k][1],
                                                     lat.weighted_edge_list[k][2],
                                                     lat.weighted_edge_list[k][3])]),
                               lat.num_nodes)>>]

call_second_q_ops(display_format) ==
    /\ cls = "HeisenbergModel"
    /\ ret' = second_q_ops(lattice, display_format)
    /\ call' = [op |-> "second_q_ops", pre |-> params, arg |-> display_format]
    /\ UNCHANGED <<cls, num_qubits, reps, lattice, params>>
    /\ UNCHANGED pulseVars

Edges == {<<a, b, w>> : a \in 0..MaxNode, b \in 0..MaxNode, w \in Weights}

EdgeLists == UNION {[1..len -> Edges] : len \in 0..MaxEdges}

InitHeisenberg ==
    /\ cls = "HeisenbergModel"
    /\ lattice \in {[weighted_edge_list |-> es, num_nodes |-> MaxNode + 1] :
                    es \in EdgeLists}
    /\ num_qubits = 0
    /\ reps = 0
    /\ params = <<>>
    /\ call = NoCall
    /\ ret = NoRet
    /\ PulseIdle

NextHeisenberg == \E display_format \in {<<>>, <<"sparse">>} : call_second_q_ops(display_format)

SpecHeisenberg == InitHeisenberg /\ [][NextHeisenberg]_vars

----------------------------------------------------------------------------
(* Claims about RVB.circuit() and HVAnsatz.circuit() *)

TheCircuit == ret.circuit[1]

Built == call.op = "circuit" /\ ret.status = "ok"

(* C1: circuit() of RVB and of HVAnsatz returns a circuit over n qubits for
   every even n >= 0, and for every odd n raises the CircuitError 'The number
   of qubits should be even!' and returns no circuit. *)
C1_EvenBuildsOddRaises ==
    call.op = "circuit" =>
        IF num_qubits % 2 = 0
        THEN /\ ret.status = "ok"
             /\ Len(ret.circuit) = 1
             /\ TheCircuit.num_qubits = num_qubits
        ELSE /\ ret.status = EvenError
             /\ ret.circuit = <<>>

C1_Witness ==
    /\ call.op = "circuit"
    /\ cls = "RVB"
    /\ num_qubits = 4
    /\ reps = 2
    /\ ret.status = "ok"
    /\ TheCircuit.num_qubits = 4

Blocks(circuit) == SelectSeq(circuit.data, LAMBDA g : g.operation.name = "eSWAP")

FreshRVB41 ==
    /\ cls = "RVB"
    /\ call.op = "circuit"
    /\ call.pre = <<>>
    /\ num_qubits = 4
    /\ reps = 1

(* C3 as stated: a fresh RVB builder with 4 qubits and 1 repetition appends
   exactly 3 eSWAP blocks, allocates exactly 6 parameters, and returns a
   circuit over 4 qubits. *)
C3_ThreeBlocksSixParams ==
    FreshRVB41 =>
        /\ ret.status = "ok"
        /\ Len(Blocks(TheCircuit)) = 3
        /\ Len(params) = 6
        /\ TheCircuit.num_qubits = 4

(* C3 amended: a fresh RVB builder with 4 qubits and 1 repetition appends
   exactly 4 eSWAP blocks, on (3,0), (1,2), (0,1), (2,3), allocates exactly 8
   parameters (2 per block), and returns a circuit over 4 qubits. *)
C3_FourBlocksEightParams ==
    FreshRVB41 =>
        /\ ret.status = "ok"
        /\ [k \in DOMAIN Blocks(TheCircuit) |-> Blocks(TheCircuit)[k].qubits]
              = <<<<3, 0>>, <<1, 2>>, <<0, 1>>, <<2, 3>>>>
        /\ Len(params) = 8
        /\ Len(params) = 2 * Len(Blocks(TheCircuit))
        /\ \A k \in 1..4 : Len(Blocks(TheCircuit)[k].operation.params) = 2
        /\ TheCircuit.num_qubits = 4

C3_Witness == FreshRVB41 /\ ret.status = "ok" /\ Len(Blocks(TheCircuit)) = 4

(* the pair the m-th block or rotation group of a repetition acts on
   (m from 0): the odd layer descending with the wraparound pair first, then
   the even layer ascending *)
LayerPair(n, m) ==
    IF m < n \div 2
    THEN (IF m = 0 THEN <<n - 1, 0>> ELSE <<n - 1 - 2 * m, n - 2 * m>>)
    ELSE <<2 * (m - n \div 2), 2 * (m - n \div 2) + 1>>

RotationNames == <<"rzz", "ryy", "rxx">>

IsRotation(g) == g.operation.name \in {"rzz", "ryy", "rxx"}

(* the k-th rotation (k from 0) that circuit() emits when the builder held
   `base` parameters at the call *)
ExpectedRotation(n, base, k) ==
    LET m == (k % (3 * n)) \div 3
    IN [operation |->
            Gate(RotationNames[(k % 3) + 1],
                 <<Parameter((IF m < n \div 2 THEN phi ELSE gamma) \o str(base + k))>>),
        qubits |-> LayerPair(n, m)]

(* C4: for every even n >= 2 and reps >= 0, HVAnsatz.circuit() emits per
   repetition the odd layer over (n-1,0), (n-3,n-2), ..., (1,2) and then the
   even layer over (0,1), ..., (n-2,n-1); every pair gets RZZ, RYY, RXX in
   that order, each with its own fresh parameter ('phi' in the odd layer,
   'gamma' in the even layer), so 3 parameters per pair and 3*n per
   repetition. *)
C4_HVALayers ==
    (cls = "HVAnsatz" /\ call.op = "circuit" /\ num_qubits % 2 = 0 /\ num_qubits >= 2) =>
        /\ ret.status = "ok"
        /\ LET n == num_qubits
               d == TheCircuit.data
               first == Len(d) - 3 * n * reps
           IN /\ first >= 0
              /\ \A k \in 1..first : ~IsRotation(d[k])
              /\ \A k \in 0..(3 * n * reps - 1) :
                    d[first + 1 + k] = ExpectedRotation(n, Len(call.pre), k)
              /\ Len(params) = Len(call.pre) + 3 * n * reps
              /\ params = call.pre \o
                    [k \in 1..(3 * n * reps) |->
                        d[first + k].operation.params[1].name]

C4_Witness ==
    /\ cls = "HVAnsatz"
    /\ Built
    /\ num_qubits = 4
    /\ reps = 1
    /\ call.pre = <<>>
    /\ Len(params) = 12
    /\ Len(SelectSeq(TheCircuit.data, IsRotation)) = 12

(* the eSWAP block whose two parameters are the ones numbered i and i + 1 *)
ExpectedBlock(i, qargs) ==
    [operation |->
        [name |-> "eSWAP",
         params |-> Parameters(sorted({phi \o str(i), phi \o str(i + 1)})),
         definition |->
            <<[operation |-> Gate("cx", <<>>), qubits |-> <<1, 0>>],
              [operation |-> Gate("crx", <<Parameter(phi \o str(i))>>),
               qubits |-> <<0, 1>>],
              [operation |-> Gate("x", <<>>), qubits |-> <<0>>],
              [operation |-> Gate("rz", <<NegHalf(phi \o str(i + 1))>>),
               qubits |-> <<0>>],
              [operation |-> Gate("cx", <<>>), qubits |-> <<1, 0>>]>>],
     qubits |-> qargs]

(* the k-th instruction (k from 1) of RVB.circuit() over n qubits *)
ExpectedRVB(n, base, k) ==
    IF k <= n THEN [operation |-> Gate("x", <<>>), qubits |-> <<k - 1>>]
    ELSE IF k <= 2 * n
         THEN LET j == 2 * ((k - n - 1) \div 2)
              IN IF (k - n - 1) % 2 = 0
                 THEN [operation |-> Gate("h", <<>>), qubits |-> <<j>>]
                 ELSE [operation |-> Gate("cx", <<>>), qubits |-> <<j, j + 1>>]
         ELSE LET b == k - 2 * n - 1
              IN ExpectedBlock(base + 2 * b, LayerPair(n, b % n))

(* C9: for every even n >= 2 and reps >= 0, RVB.circuit() emits an X on
   every qubit, then H(j), CX(j,j+1) for every even j ascending, then per
   repetition eSWAP blocks on (n-1,0), (n-3,n-2), ..., (1,2) and on (0,1),
   (2,3), ..., (n-2,n-1); every block allocates exactly two new parameters,
   the first used by the controlled-RX and the second by the RZ, and every
   qubit index lies in 0..n-1. *)
C9_RVBOrder ==
    (cls = "RVB" /\ call.op = "circuit" /\ num_qubits % 2 = 0 /\ num_qubits >= 2) =>
        /\ ret.status = "ok"
        /\ LET n == num_qubits
               d == TheCircuit.data
           IN /\ Len(d) = 2 * n + n * reps
              /\ \A k \in 1..Len(d) : d[k] = ExpectedRVB(n, Len(call.pre), k)
              /\ \A k \in 1..Len(d) : \A q \in DOMAIN d[k].qubits :
                    d[k].qubits[q] \in 0..(n - 1)
              /\ params = call.pre \o
                    [k \in 1..(2 * n * reps) |-> phi \o str(Len(call.pre) + k - 1)]

C9_Witness ==
    /\ cls = "RVB"
    /\ Built
    /\ num_qubits = 4
    /\ reps = 2
    /\ Len(call.pre) = 1
    /\ Len(Blocks(TheCircuit)) = 8

----------------------------------------------------------------------------
(* Claims about new_param *)

(* C2: on one builder, after any sequence of new_param calls with any
   prefixes, circuit() calls included, the k-th parameter created (k from 0)
   is named prefix followed by the decimal k, the list holds the parameters
   in creation order, and no two parameters of the list have the same name. *)
C2_NamesInOrderAndDistinct ==
    /\ call.op = "new_param" =>
          params = Append(call.pre, call.arg \o str(Len(call.pre)))
    /\ call.op = "circuit" =>
          /\ Len(params) >= Len(call.pre)
          /\ SubSeq(params, 1, Len(call.pre)) = call.pre
    /\ \A i, j \in DOMAIN params : i # j => params[i] # params[j]

----------------------------------------------------------------------------
(* Claims about CRAnsatz._layer *)

(* the pair of the k-th cr gate (k from 1) of an interleaved layer:
   even offsets first, then odd offsets *)
InterleavedPair(n, k) ==
    IF k <= n \div 2 THEN <<2 * (k - 1), 2 * (k - 1) + 1>>
    ELSE <<2 * (k - n \div 2) - 1, 2 * (k - n \div 2)>>

(* C5: for every N >= 1, one _layer() call with entanglement 'interleaved'
   adds exactly floor(N/2) + floor((N-1)/2) cr gates, each on an adjacent
   pair (q, q+1) with 0 <= q and q+1 <= N-1: the even-offset pairs first,
   then the odd-offset pairs. *)
C5_InterleavedCrCount ==
    (call.op = "_layer" /\ entanglement = Interleaved /\ num_qubits >= 1) =>
        /\ ret.status = "ok"
        /\ \A crs \in {SelectSeq(TheCircuit.data, LAMBDA g : g.operation.name = "cr")} :
              /\ Len(crs) = num_qubits \div 2 + (num_qubits - 1) \div 2
              /\ \A k \in DOMAIN crs :
                    /\ crs[k].qubits = InterleavedPair(num_qubits, k)
                    /\ crs[k].qubits[1] >= 0
                    /\ crs[k].qubits[2] = crs[k].qubits[1] + 1
                    /\ crs[k].qubits[2] <= num_qubits - 1

----------------------------------------------------------------------------
(* Claims about AnsatzBuilder.add_schedules *)

(* the first add_schedules of a builder, on a circuit without calibrations *)
FirstScan ==
    /\ call.op = "add_schedules"
    /\ call.arg[2] = EmptyMap
    /\ call.arg[1].calibrations = {}

Position(view, name) == CHOOSE k \in 0..(Len(view) - 1) : view[k + 1] = name

Recorded(view, param, wrapper, what) ==
    param.kind # "num" =>
        /\ \E k \in 0..(Len(view) - 1) : view[k + 1] = param.name
        /\ Position(view, param.name) \in DOMAIN wrapper_config
        /\ wrapper_config[Position(view, param.name)].wrapper = wrapper
        /\ wrapper_config[Position(view, param.name)].label
              = [what |-> what, name |-> param.name]

(* an instruction of the circuit has the parameter called name in the role
   the label says *)
HasRole(data, what, name) ==
    \E i \in DOMAIN data :
        IF what = "dur"
        THEN /\ data[i].operation.name = "cr"
             /\ data[i].operation.params[1] = Parameter(name)
        ELSE \/ /\ data[i].operation.name = "rx"
                /\ data[i].operation.params[1] = Parameter(name)
             \/ /\ data[i].operation.name = "cr"
                /\ data[i].operation.params[2] = Parameter(name)

(* C6: after add_schedules(circuit) on a circuit built with the same fresh
   builder, every wrapper-config entry with key k and label amp[name] or
   dur[name] has the parameter called name at position k of the circuit's
   name-sorted, deduplicated parameter list; duration parameters of cr gates
   are recorded as SinDurationWrapper, amplitude parameters of rx and cr
   gates as SinWrapper. *)
C6_WrapperKeyIsSortedPosition ==
    FirstScan =>
        \A view \in {parameters(circ)} :
            /\ \A k \in DOMAIN wrapper_config :
                  /\ k \in 0..(Len(view) - 1)
                  /\ view[k + 1] = wrapper_config[k].label.name
                  /\ wrapper_config[k].label.what \in {"amp", "dur"}
                  /\ wrapper_config[k].wrapper =
                        IF wrapper_config[k].label.what = "dur"
                        THEN "SinDurationWrapper" ELSE "SinWrapper"
                  /\ HasRole(circ.data, wrapper_config[k].label.what,
                             wrapper_config[k].label.name)
            /\ ret.status = "ok" =>
                  \A i \in DOMAIN circ.data :
                      /\ circ.data[i].operation.name = "cr" =>
                            /\ Recorded(view, circ.data[i].operation.params[1],
                                        "SinDurationWrapper", "dur")
                            /\ Recorded(view, circ.data[i].operation.params[2],
                                        "SinWrapper", "amp")
                      /\ circ.data[i].operation.name = "rx" =>
                            Recorded(view, circ.data[i].operation.params[1],
                                     "SinWrapper", "amp")

(* a duration parameter recorded under a key that is not its creation index *)
C6_Witness ==
    /\ FirstScan
    /\ ret.status = "ok"
    /\ \E k \in DOMAIN wrapper_config :
          /\ wrapper_config[k].label.what = "dur"
          /\ params[k + 1] # wrapper_config[k].label.name
    /\ \E k \in DOMAIN wrapper_config : wrapper_config[k].label.what = "amp"

Mapped(qubits) == [k \in DOMAIN qubits |-> physical_qubits[qubits[k] + 1]]

(* C8: add_schedules(circuit) scans every instruction and, for each
   instruction named 'rx', 'cr' or 'ccr', adds a calibration for that gate on
   the mapped physical qubits and records a wrapper-config entry for each of
   its parameters that is not a concrete number; instructions with any other
   name add no calibration and no wrapper-config entry. *)
C8_RxCrCcrCalibrated ==
    (FirstScan /\ ret.status = "ok") =>
        \A view \in {parameters(circ)} :
            \A i \in DOMAIN circ.data :
                IF circ.data[i].operation.name \in {"rx", "cr", "ccr"}
                THEN /\ \E c \in circ.calibrations :
                           /\ c.gate = circ.data[i].operation.name
                           /\ c.qubits = Mapped(circ.data[i].qubits)
                     /\ \A m \in DOMAIN circ.data[i].operation.params :
                           circ.data[i].operation.params[m].kind # "num" =>
                               /\ Position(view, circ.data[i].operation.params[m].name)
                                     \in DOMAIN wrapper_config
                               /\ wrapper_config[
                                     Position(view, circ.data[i].operation.params[m].name)
                                  ].label.name = circ.data[i].operation.params[m].name
                ELSE /\ \A c \in circ.calibrations :
                           c.gate # circ.data[i].operation.name
                     /\ \A m \in DOMAIN circ.data[i].operation.params :
                           circ.data[i].operation.params[m].kind # "num" =>
                               Position(view, circ.data[i].operation.params[m].name)
                                  \notin DOMAIN wrapper_config

----------------------------------------------------------------------------
(* Claims about HeisenbergModel.second_q_ops *)

TheTerms == ret.circuit[1].terms

IsLoop(e) == e[1] = e[2]

(* how many terms the edges before edge number k produce *)
TermsBefore(es, k) ==
    Cardinality({j \in 1..(k - 1) : IsLoop(es[j])})
    + 3 * Cardinality({j \in 1..(k - 1) : ~IsLoop(es[j])})

Pauli(letter, node) == <<letter, 95>> \o str(node)

(* C7: for every weighted edge list, second_q_ops() produces the
   concatenation, in edge order, of the one term ('X_a', w) for a self-loop
   (a, a, w) and of the three terms ('X_a X_b', w), ('Y_a Y_b', w),
   ('Z_a Z_b', w) in that order for any other edge (a, b, w); the number of
   terms is (self-loops) + 3 * (cross edges) and every term carries its
   edge's weight unchanged. *)
C7_TermsPerEdge ==
    (call.op = "second_q_ops" /\ call.arg = <<>>) =>
        /\ ret.status = "ok"
        /\ \A es \in {lattice.weighted_edge_list} :
              /\ Len(TheTerms) = TermsBefore(es, Len(es) + 1)
              /\ \A k \in DOMAIN es :
                    IF IsLoop(es[k])
                    THEN TheTerms[TermsBefore(es, k) + 1]
                            = [label |-> Pauli(88, es[k][1]), coeff |-> es[k][3]]
                    ELSE \A t \in 1..3 :
                            TheTerms[TermsBefore(es, k) + t]
                               = [label |-> Pauli(87 + t, es[k][1]) \o <<32>>
                                               \o Pauli(87 + t, es[k][2]),
                                  coeff |-> es[k][3]]

C7_Witness ==
    /\ call.op = "second_q_ops"
    /\ call.arg = <<>>
    /\ ret.status = "ok"
    /\ Len(lattice.weighted_edge_list) = 3
    /\ IsLoop(lattice.weighted_edge_list[1])
    /\ ~IsLoop(lattice.weighted_edge_list[2])
    /\ IsLoop(lattice.weighted_edge_list[3])
    /\ lattice.weighted_edge_list[1][3] # lattice.weighted_edge_list[2][3]
    /\ Len(TheTerms) = 5

----------------------------------------------------------------------------
(* Claims about AnsatzBuilder._get_control_channel *)

Supplied(bk, qubits) ==
    \/ bk.kind = "v2"
    \/ bk.kind = "v1" /\ qubits \in DOMAIN bk.channels

(* C10: after any sequence of _get_control_channel calls the cache has only
   grown (no entry removed or changed); it gains an entry only on the first
   request for a pair the backend does not supply, that entry being channel
   (cache size before the call) + 1; every later request for the pair returns
   that same channel; two different pairs, (a,b) and (b,a) included, never
   share a synthesized channel; a request the backend supplies leaves the
   cache unchanged. *)
C10_CacheGrowsOnFirstMiss ==
    call.op = "_get_control_channel" =>
        \A qubits \in {call.arg[1]} : \A before \in {call.arg[2]} :
            /\ \A q \in DOMAIN before :
                  q \in DOMAIN control_channels /\ control_channels[q] = before[q]
            /\ IF ~Supplied(backend, qubits) /\ qubits \notin DOMAIN before
               THEN /\ DOMAIN control_channels = DOMAIN before \cup {qubits}
                    /\ control_channels[qubits] = Cardinality(DOMAIN before) + 1
               ELSE control_channels = before
            /\ ~Supplied(backend, qubits) =>
                  /\ ret.circuit[1] = ControlChannel(control_channels[qubits])
                  /\ qubits \in DOMAIN before =>
                        ret.circuit[1] = ControlChannel(before[qubits])
            /\ Supplied(backend, qubits) =>
                  ret.circuit[1] = ControlChannel(backend.channels[qubits])
            /\ \A q1, q2 \in DOMAIN control_channels :
                  q1 # q2 => control_channels[q1] # control_channels[q2]

(* a repeated request for (1, 0) after (0, 1) and (1, 0) were both cached *)
C10_Witness ==
    /\ call.op = "_get_control_channel"
    /\ backend.kind = "plain"
    /\ call.arg[1] = <<1, 0>>
    /\ call.arg[2] = control_channels
    /\ <<0, 1>> \in DOMAIN control_channels
    /\ <<1, 0>> \in DOMAIN control_channels
    /\ control_channels[<<0, 1>>] = 1
    /\ control_channels[<<1, 0>>] = 2
    /\ ret.circuit[1] = ControlChannel(2)

----------------------------------------------------------------------------
(* Claims about the Bell-pair loop of HVAnsatz.circuit() *)

(* C11: in HVAnsatz.circuit() the parity test of the Bell-pair loop reads
   the variable of the initialisation loop, which is n-1 after that loop; for
   every even n >= 2 this is odd, so the test is false on every iteration
   and the returned circuit holds no Hadamard and no CX gate: the gates
   before the first rotation layer are exactly one X per qubit. *)
C11_NoBellPairs ==
    (cls = "HVAnsatz" /\ call.op = "circuit" /\ num_qubits % 2 = 0 /\ num_qubits >= 2) =>
        /\ ret.status = "ok"
        /\ Last(range(0, num_qubits, 1)) = num_qubits - 1
        /\ (num_qubits - 1) % 2 = 1
        /\ \A d \in {TheCircuit.data} :
              /\ \A k \in DOMAIN d : d[k].operation.name \notin {"h", "cx"}
              /\ Len(d) >= num_qubits
              /\ \A k \in 1..num_qubits :
                    d[k] = [operation |-> Gate("x", <<>>), qubits |-> <<k - 1>>]
              /\ \A k \in (num_qubits + 1)..Len(d) : IsRotation(d[k])

C11_Witness ==
    /\ cls = "HVAnsatz"
    /\ Built
    /\ num_qubits = 4
    /\ reps = 1
    /\ Len(TheCircuit.data) = 16
    /\ TheCircuit.data[4].operation.name = "x"
    /\ TheCircuit.data[5].operation.name = "rzz"

====
